---- MODULE Spec2Model ----
(***************************************************************************)
(* Model of dbus-mqtt-meter.py: the Meter object (stored readings `data`,  *)
(* published dbus values `service`) and the Bridge that feeds it MQTT      *)
(* messages.                                                               *)
(*                                                                         *)
(* Python floats are modelled as exact rationals <<num, den>> in lowest    *)
(* terms with den > 0; rounding, nan and inf are not modelled.  Python     *)
(* str values are tuples of one-character strings, bytes values are tuples *)
(* of byte codes.  None is the empty tuple.                                *)
(***************************************************************************)
EXTENDS Integers, Sequences, FiniteSets, TLC

VARIABLES
    data,        \* Meter.data: dict sensor -> float
    service,     \* Meter.service: the value held by each dbus path
    subscribed,  \* topics the Bridge's client is subscribed to
    last,        \* history: the last handler that ran and what it did
    delivered,   \* history: per sensor, the last float a message delivered
    run,         \* history: netz_bezug, netz_einspeisung deliveries in a row
    fresh,       \* history: phases whose power was derived from the present inputs
    script       \* history: how far the deliveries so far follow Script

vars == <<data, service, subscribed, last, delivered, run, fresh, script>>

---------------------------------------------------------------------------
(* Floats as rationals *)

None == <<>>

Abs(x) == IF x < 0 THEN -x ELSE x

RECURSIVE Gcd(_, _)
Gcd(a, b) == IF b = 0 THEN a ELSE Gcd(b, a % b)

Rat(n, d) ==
    LET g == Gcd(Abs(n), Abs(d))
        s == IF d < 0 THEN -1 ELSE 1
    IN  <<(s * n) \div g, (s * d) \div g>>

FAdd(x, y) == Rat(x[1] * y[2] + y[1] * x[2], x[2] * y[2])
FSub(x, y) == Rat(x[1] * y[2] - y[1] * x[2], x[2] * y[2])
FMul(x, y) == Rat(x[1] * y[1], x[2] * y[2])
\* x / y for y # 0; Python raises ZeroDivisionError for y = 0 (see update)
FDiv(x, y) == Rat(x[1] * y[2], x[2] * y[1])
FZero == <<0, 1>>
FIsZero(x) == x[1] = 0
FPositive(x) == x[1] > 0

---------------------------------------------------------------------------
(* Strings *)

HassSensor == <<"h","a","s","s","/","s","e","n","s","o","r","/">>
StateSuffix == <<"/","s","t","a","t","e">>
NetzI == HassSensor \o <<"n","e","t","z","_","i">>
NetzU == HassSensor \o <<"n","e","t","z","_","u">>

ZahlerstandBezug ==
    HassSensor \o <<"z","a","h","l","e","r","s","t","a","n","d","_","b","e","z","u","g">>
ZahlerstandEinspeisung ==
    HassSensor \o <<"z","a","h","l","e","r","s","t","a","n","d","_",
                    "e","i","n","s","p","e","i","s","u","n","g">>
NetzBezug == HassSensor \o <<"n","e","t","z","_","b","e","z","u","g">>
NetzEinspeisung ==
    HassSensor \o <<"n","e","t","z","_","e","i","n","s","p","e","i","s","u","n","g">>

Unavailable == <<"u","n","a","v","a","i","l","a","b","l","e">>

Digits == <<"0","1","2","3","4","5","6","7","8","9">>
DigitSet == {"0","1","2","3","4","5","6","7","8","9"}
IsDigit(c) == c \in DigitSet
DigitVal(c) == (CHOOSE i \in 1..10 : Digits[i] = c) - 1

PhaseDigits == {"1", "2", "3"}

\* bytes.decode(): ASCII bytes decode to their characters, a byte >= 128 that
\* starts no valid UTF-8 sequence raises UnicodeDecodeError (a ValueError)
Chr(b) ==
    CASE b = 32 -> " " [] b = 43 -> "+" [] b = 45 -> "-" [] b = 46 -> "."
      [] b = 48 -> "0" [] b = 49 -> "1" [] b = 50 -> "2" [] b = 51 -> "3"
      [] b = 52 -> "4" [] b = 53 -> "5" [] b = 54 -> "6" [] b = 55 -> "7"
      [] b = 56 -> "8" [] b = 57 -> "9" [] b = 97 -> "a" [] b = 98 -> "b"
      [] b = 101 -> "e" [] b = 105 -> "i" [] b = 107 -> "k" [] b = 108 -> "l"
      [] b = 110 -> "n" [] b = 111 -> "o" [] b = 117 -> "u" [] b = 118 -> "v"
      [] b = 119 -> "w" [] OTHER -> "?"
decodes(payload) == \A i \in 1..Len(payload) : payload[i] < 128
decode(payload) == [i \in 1..Len(payload) |-> Chr(payload[i])]

\* float(str) for plain decimal numerals: [sign] digits [. digits], with at
\* least one digit; anything else raises ValueError
Unsigned(s) == IF Len(s) > 0 /\ s[1] \in {"+", "-"} THEN Tail(s) ELSE s
RECURSIVE IndexFrom(_, _, _)
IndexFrom(u, i, chars) ==
    IF i > Len(u) \/ u[i] \in chars THEN i ELSE IndexFrom(u, i + 1, chars)
\* the index of the first "." of u, Len(u) + 1 if it has none
PointAt(u) == IndexFrom(u, 1, {"."})
IntPart(u) == SubSeq(u, 1, PointAt(u) - 1)
FracPart(u) == SubSeq(u, PointAt(u) + 1, Len(u))
AllDigits(s) == \A i \in 1..Len(s) : IsDigit(s[i])

RECURSIVE DigitsVal(_)
DigitsVal(s) ==
    IF Len(s) = 0 THEN 0
    ELSE 10 * DigitsVal(SubSeq(s, 1, Len(s) - 1)) + DigitVal(s[Len(s)])

RECURSIVE Pow10(_)
Pow10(n) == IF n = 0 THEN 1 ELSE 10 * Pow10(n - 1)

float_parses(s) ==
    LET u == Unsigned(s)
    IN  /\ AllDigits(IntPart(u))
        /\ AllDigits(FracPart(u))
        /\ Len(IntPart(u)) + Len(FracPart(u)) > 0
float(s) ==
    LET u == Unsigned(s)
        scale == Pow10(Len(FracPart(u)))
        mag == DigitsVal(IntPart(u)) * scale + DigitsVal(FracPart(u))
    IN  Rat(IF Len(s) > 0 /\ s[1] = "-" THEN -mag ELSE mag, scale)

---------------------------------------------------------------------------
(* Meter *)

PowerPath == <<"/Ac/Power">>
PhasePowerPath(phase_no) == <<"/Ac/L", phase_no, "/Power">>
CurrentPath(phase_no) == <<"/Ac/L", phase_no, "/Current">>
VoltagePath(phase_no) == <<"/Ac/L", phase_no, "/Voltage">>
EnergyForward == <<"/Ac/Energy/Forward">>
EnergyReverse == <<"/Ac/Energy/Reverse">>

\* a table that sends both energy counters to one path
data_map_one_energy_path ==
    (ZahlerstandBezug :> EnergyForward)
        @@ (ZahlerstandEinspeisung :> EnergyForward)
        @@ (NetzI \o <<"1">> :> CurrentPath("1"))
        @@ (NetzU \o <<"1">> :> VoltagePath("1"))
        @@ (NetzI \o <<"2">> :> CurrentPath("2"))
        @@ (NetzU \o <<"2">> :> VoltagePath("2"))
        @@ (NetzI \o <<"3">> :> CurrentPath("3"))
        @@ (NetzU \o <<"3">> :> VoltagePath("3"))

\* Meter.data_map: sensor -> dbus path
data_map ==
    (ZahlerstandBezug :> EnergyForward)
        @@ (ZahlerstandEinspeisung :> EnergyReverse)
        @@ (NetzI \o <<"1">> :> CurrentPath("1"))
        @@ (NetzU \o <<"1">> :> VoltagePath("1"))
        @@ (NetzI \o <<"2">> :> CurrentPath("2"))
        @@ (NetzU \o <<"2">> :> VoltagePath("2"))
        @@ (NetzI \o <<"3">> :> CurrentPath("3"))
        @@ (NetzU \o <<"3">> :> VoltagePath("3"))

\* the value paths added by Meter.__init__, each with value None
ValuePaths ==
    {EnergyForward, EnergyReverse, PowerPath}
        \cup {CurrentPath(n) : n \in PhaseDigits}
        \cup {VoltagePath(n) : n \in PhaseDigits}
        \cup {PhasePowerPath(n) : n \in PhaseDigits}

\* a Meter that starts with no readings at all
InitDataEmpty == [s \in {} |-> FZero]

\* self.data after Meter.__init__
InitData == [s \in {NetzBezug, NetzEinspeisung} |-> FZero]

\* a store that keeps the first reading of a sensor
store_first(d, sensor, value) ==
    [s \in DOMAIN d \cup {sensor} |-> IF s \in DOMAIN d THEN d[s] ELSE value]

\* self.data[sensor] = value
store(d, sensor, value) ==
    [s \in DOMAIN d \cup {sensor} |-> IF s = sensor THEN value ELSE d[s]]

\* a set_path that writes without comparing
set_path_always(st, path, value) ==
    [service |-> [st.service EXCEPT ![path] = value],
     writes |-> Append(st.writes, <<path, value>>)]

\* Meter.set_path on the handler's running state st: the values the service
\* holds and the writes made to it so far, in order
set_path(st, path, value) ==
    IF st.service[path] # value
    THEN [service |-> [st.service EXCEPT ![path] = value],
          writes |-> Append(st.writes, <<path, value>>)]
    ELSE st

\* a slice that leaves the "/" of "/state" on the sensor name
sensor_of_five(topic) == SubSeq(topic, 1, Len(topic) - 5)

\* sensor = topic[:-6]
sensor_of(topic) == SubSeq(topic, 1, Len(topic) - 6)

\* re.search(r"\d", sensor): the first digit of the sensor name, "" if none
match(sensor) ==
    IF IndexFrom(sensor, 1, DigitSet) <= Len(sensor)
    THEN sensor[IndexFrom(sensor, 1, DigitSet)]
    ELSE ""

\* a total power without the factor 1000.0
total_power_kw(d) == FSub(d[NetzBezug], d[NetzEinspeisung])

\* a derivation fed by the two pass-through counters instead
total_power_zahlerstand(d) ==
    LET counter(k) == IF k \in DOMAIN d THEN d[k] ELSE FZero
    IN  FMul(<<1000, 1>>, FSub(counter(ZahlerstandBezug), counter(ZahlerstandEinspeisung)))

\* 1000.0 * (data[netz_bezug] - data[netz_einspeisung])
total_power(d) == FMul(<<1000, 1>>, FSub(d[NetzBezug], d[NetzEinspeisung]))

\* the keys the divisor of `factor` reads
PhaseKeys ==
    {NetzI \o <<"1">>, NetzU \o <<"1">>, NetzI \o <<"2">>, NetzU \o <<"2">>,
     NetzI \o <<"3">>, NetzU \o <<"3">>}

\* i1 * u1 + i2 * u2 + i3 * u3
apparent_sum(d) ==
    FAdd(FAdd(FMul(d[NetzI \o <<"1">>], d[NetzU \o <<"1">>]),
              FMul(d[NetzI \o <<"2">>], d[NetzU \o <<"2">>])),
         FMul(d[NetzI \o <<"3">>], d[NetzU \o <<"3">>]))

\* an equal share for every phase
phase_power_third(d, tp, phase_no) == FDiv(tp, <<3, 1>>)

\* a share by current alone
phase_power_amps(d, tp, phase_no) ==
    FMul(FDiv(tp, apparent_sum(d)), d[NetzI \o <<phase_no>>])

\* factor * data[netz_i{phase_no}] * data[netz_u{phase_no}]
phase_power(d, tp, phase_no) ==
    FMul(FMul(FDiv(tp, apparent_sum(d)), d[NetzI \o <<phase_no>>]),
         d[NetzU \o <<phase_no>>])

\* how a call of update can end
Returned == {"returned", "KeyError", "unavailable"}
Raised == {"ValueError", "UnicodeDecodeError", "ZeroDivisionError"}

Result(d, st, outcome) ==
    [data |-> d, service |-> st.service, writes |-> st.writes, outcome |-> outcome]

\* a per-phase part that gives a phase all of the total power while
\* readings of the other phases are missing
update_phase_partial(d, st, tp, phase_no) ==
    IF ~({NetzI \o <<phase_no>>, NetzU \o <<phase_no>>} \subseteq DOMAIN d)
    THEN Result(d, st, "KeyError")
    ELSE IF ~(PhaseKeys \subseteq DOMAIN d)
    THEN Result(d, set_path(st, PhasePowerPath(phase_no), tp), "returned")
    ELSE IF FIsZero(apparent_sum(d)) THEN Result(d, st, "ZeroDivisionError")
    ELSE Result(d, set_path(st, PhasePowerPath(phase_no), phase_power(d, tp, phase_no)),
                "returned")

\* a per-phase part that publishes every phase's share
update_phase_all(d, st, tp, phase_no) ==
    IF ~(PhaseKeys \subseteq DOMAIN d) THEN Result(d, st, "KeyError")
    ELSE IF FIsZero(apparent_sum(d)) THEN Result(d, st, "ZeroDivisionError")
    ELSE LET s1 == set_path(st, PhasePowerPath("1"), phase_power(d, tp, "1"))
             s2 == set_path(s1, PhasePowerPath("2"), phase_power(d, tp, "2"))
             s3 == set_path(s2, PhasePowerPath("3"), phase_power(d, tp, "3"))
         IN  Result(d, s3, "returned")

\* the per-phase part of Meter.update, entered with a digit in the sensor name
update_phase(d, st, tp, phase_no) ==
    IF ~(PhaseKeys \subseteq DOMAIN d) THEN Result(d, st, "KeyError")
    ELSE IF FIsZero(apparent_sum(d)) THEN Result(d, st, "ZeroDivisionError")
    ELSE IF ~({NetzI \o <<phase_no>>, NetzU \o <<phase_no>>} \subseteq DOMAIN d)
    THEN Result(d, st, "KeyError")
    ELSE IF PhasePowerPath(phase_no) \notin DOMAIN st.service
    THEN Result(d, st, "KeyError")
    ELSE Result(d, set_path(st, PhasePowerPath(phase_no), phase_power(d, tp, phase_no)),
                "returned")

\* an update that derives per-phase power first and brings total power up
\* to date only when that derivation went through
update_value_phase_first(d0, svc, sensor, phase_no, value) ==
    LET d == store(d0, sensor, value)
        st0 == [service |-> svc, writes |-> <<>>]
        st1 == IF sensor \in DOMAIN data_map
               THEN set_path(st0, data_map[sensor], value)
               ELSE st0
        r == IF phase_no = "" THEN Result(d, st1, "returned")
             ELSE update_phase(d, st1, total_power(d), phase_no)
    IN  IF r.outcome # "returned" THEN r
        ELSE Result(d, set_path([service |-> r.service, writes |-> r.writes],
                                PowerPath, total_power(d)), "returned")

\* the part of Meter.update after float() succeeded
update_value(d0, svc, sensor, phase_no, value) ==
    LET d == store(d0, sensor, value)
        st0 == [service |-> svc, writes |-> <<>>]
        st1 == IF sensor \in DOMAIN data_map
               THEN set_path(st0, data_map[sensor], value)
               ELSE st0
        st2 == set_path(st1, PowerPath, total_power(d))
    IN  IF ~({NetzBezug, NetzEinspeisung} \subseteq DOMAIN d)
        THEN Result(d, st1, "KeyError")
        ELSE IF phase_no = "" THEN Result(d, st2, "returned")
        ELSE update_phase(d, st2, total_power(d), phase_no)

\* what Meter.update computes from its arguments alone: the sensor name, the
\* match of r"\d" in it, and float(payload.decode()) or the way it fails
read(topic, payload) ==
    [sensor |-> sensor_of(topic),
     phase_no |-> match(sensor_of(topic)),
     error |-> IF ~decodes(payload) THEN "UnicodeDecodeError"
               ELSE IF float_parses(decode(payload)) THEN ""
               ELSE IF decode(payload) = Unavailable THEN "unavailable"
               ELSE "ValueError",
     value |-> IF decodes(payload) /\ float_parses(decode(payload))
               THEN float(decode(payload))
               ELSE None]

\* an update that takes "unavailable" for the reading 0.0
update_read_unavailable_zero(d, svc, m) ==
    IF m.error = "unavailable"
    THEN update_value(d, svc, m.sensor, m.phase_no, FZero)
    ELSE IF m.error # ""
    THEN Result(d, [service |-> svc, writes |-> <<>>], m.error)
    ELSE update_value(d, svc, m.sensor, m.phase_no, m.value)

\* an update that withdraws the sensor's published value before it raises
update_read_withdraw(d, svc, m) ==
    IF m.error \in {"ValueError", "UnicodeDecodeError"} /\ m.sensor \in DOMAIN data_map
    THEN Result(d, set_path([service |-> svc, writes |-> <<>>], data_map[m.sensor], None),
                m.error)
    ELSE IF m.error # ""
    THEN Result(d, [service |-> svc, writes |-> <<>>], m.error)
    ELSE update_value(d, svc, m.sensor, m.phase_no, m.value)

\* an update that logs and skips every payload that is no number
update_read_skip(d, svc, m) ==
    IF m.error # ""
    THEN Result(d, [service |-> svc, writes |-> <<>>], "unavailable")
    ELSE update_value(d, svc, m.sensor, m.phase_no, m.value)

\* Meter.update, given what read() found: the data and service it leaves,
\* the writes it made and how it ended
update_read(d, svc, m) ==
    IF m.error # ""
    THEN Result(d, [service |-> svc, writes |-> <<>>], m.error)
    ELSE update_value(d, svc, m.sensor, m.phase_no, m.value)

\* Meter.update(topic, payload)
update(d, svc, topic, payload) == update_read(d, svc, read(topic, payload))

---------------------------------------------------------------------------
(* Bridge *)

\* Bridge._on_connect: sensor_list
sensor_list == DOMAIN data_map \cup {NetzBezug, NetzEinspeisung}

Topics == {s \o StateSuffix : s \in sensor_list}

---------------------------------------------------------------------------
(* Messages the broker delivers *)

Bytes2 == <<50, 46, 48>>
Bytes10 == <<49, 48, 46, 48>>
Bytes230 == <<50, 51, 48, 46, 48>>
BytesUnavailable == <<117, 110, 97, 118, 97, 105, 108, 97, 98, 108, 101>>
BytesUnknown == <<117, 110, 107, 110, 111, 119, 110>>
\* a payload that is no UTF-8 text
BytesInvalid == <<255>>

\* a sensor's state as the sender formats it: str(float(n)), "10.0" for 10
RECURSIVE Decimal(_)
Decimal(n) == IF n < 10 THEN <<48 + n>> ELSE Decimal(n \div 10) \o <<48 + (n % 10)>>
Reading(n) == Decimal(n) \o <<46, 48>>

\* phase currents reported: 0.0, 10.0, ... up to 10 * MaxAmps
MaxAmps == 1
CurrentReadings == {Reading(10 * k) : k \in 0..MaxAmps}

Currents == {NetzI \o <<n>> : n \in PhaseDigits}
Voltages == {NetzU \o <<n>> : n \in PhaseDigits}

\* Spec: every sensor may report "unavailable" or a payload that is no
\* number; the energy counters, netz_bezug, netz_einspeisung and the phase 1
\* sensors also report readings
Readings(sensor) ==
    IF sensor = NetzI \o <<"1">> THEN CurrentReadings
    ELSE IF sensor = NetzU \o <<"1">> THEN {Bytes230}
    ELSE IF sensor \in {NetzBezug, ZahlerstandBezug} THEN {Bytes10, Bytes2}
    ELSE IF sensor \in {NetzEinspeisung, ZahlerstandEinspeisung} THEN {Bytes2}
    ELSE {}

Messages ==
    UNION {{<<s \o StateSuffix, p>> :
                p \in Readings(s) \cup {BytesUnavailable, BytesUnknown, BytesInvalid}} :
           s \in sensor_list}

\* SpecPhases: the six per-phase sensors and netz_bezug report readings
PhaseReadings(sensor) ==
    IF sensor \in Currents THEN CurrentReadings
    ELSE IF sensor \in Voltages THEN {Bytes230}
    ELSE {Bytes10}

PhaseMessages ==
    UNION {{<<s \o StateSuffix, p>> : p \in PhaseReadings(s)} :
           s \in PhaseKeys \cup {NetzBezug}}

\* SpecScenario: netz_bezug = 10.0, netz_einspeisung = 2.0, every current
\* 10.0 and every voltage 230.0, the energy counters 10.0 and 2.0, delivered
\* in any order, any number of times
ScenarioReadings(sensor) ==
    IF sensor \in Currents THEN {Bytes10}
    ELSE IF sensor \in Voltages THEN {Bytes230}
    ELSE IF sensor \in {NetzBezug, ZahlerstandBezug} THEN {Bytes10}
    ELSE {Bytes2}

ScenarioMessages ==
    UNION {{<<s \o StateSuffix, p>> : p \in ScenarioReadings(s)} :
           s \in sensor_list}

\* read() of every message, computed once
Read == [m \in Messages \cup PhaseMessages \cup ScenarioMessages |-> read(m[1], m[2])]

---------------------------------------------------------------------------
(* The state machine *)

NoCall == [handler |-> "__init__", topic |-> <<>>, payload |-> <<>>,
           outcome |-> "returned", writes |-> <<>>]

NoRun == [n |-> 0, first |-> None, writes |-> 0]

Init ==
    /\ data = InitData
    /\ service = [p \in ValuePaths |-> None]
    /\ subscribed = {}
    /\ last = NoCall
    /\ delivered = [s \in {} |-> FZero]
    /\ run = NoRun
    /\ fresh = {}
    /\ script = 0

\* Bridge._on_connect
on_connect ==
    /\ subscribed' = subscribed \cup Topics
    /\ last' = [NoCall EXCEPT !.handler = "_on_connect"]
    /\ run' = NoRun
    /\ UNCHANGED <<data, service, delivered, fresh, script>>

\* the writes of a call to the total power path
PowerWrites(r) == Cardinality({i \in 1..Len(r.writes) : r.writes[i][1] = PowerPath})

\* run counts how far the deliveries netz_bezug = a, netz_einspeisung = b,
\* netz_bezug = a, netz_einspeisung = b have come with nothing in between
NextRun(m, r) ==
    IF m.error # "" THEN NoRun
    ELSE IF m.sensor = NetzBezug
    THEN IF run.n \in {2, 4} /\ m.value = data[NetzBezug]
         THEN [n |-> 3, first |-> run.first, writes |-> PowerWrites(r)]
         ELSE [n |-> 1, first |-> None, writes |-> 0]
    ELSE IF m.sensor = NetzEinspeisung
    THEN IF run.n = 1
         THEN [n |-> 2, first |-> r.service[PowerPath], writes |-> 0]
         ELSE IF run.n = 3 /\ m.value = data[NetzEinspeisung]
         THEN [n |-> 4, first |-> run.first, writes |-> run.writes + PowerWrites(r)]
         ELSE NoRun
    ELSE NoRun

\* the readings the per-phase derivation reads
PhaseInputs == PhaseKeys \cup {NetzBezug, NetzEinspeisung}

NextFresh(m, r) ==
    (IF \E k \in PhaseInputs \cap DOMAIN r.data : k \notin DOMAIN data \/ r.data[k] # data[k]
     THEN {} ELSE fresh)
    \cup (IF m.error = "" /\ m.phase_no # "" /\ r.outcome = "returned"
          THEN {m.phase_no} ELSE {})

\* the scenario: import = 10.0, export = 2.0, then i1, u1, i2, u2, i3, u3
Script ==
    <<<<NetzBezug \o StateSuffix, Bytes10>>, <<NetzEinspeisung \o StateSuffix, Bytes2>>,
      <<NetzI \o <<"1">> \o StateSuffix, Bytes10>>, <<NetzU \o <<"1">> \o StateSuffix, Bytes230>>,
      <<NetzI \o <<"2">> \o StateSuffix, Bytes10>>, <<NetzU \o <<"2">> \o StateSuffix, Bytes230>>,
      <<NetzI \o <<"3">> \o StateSuffix, Bytes10>>, <<NetzU \o <<"3">> \o StateSuffix, Bytes230>>>>
OffScript == Len(Script) + 1

\* Bridge._on_message(msg): self.meter.update(msg.topic, msg.payload)
on_message(topic, payload) ==
    \E m \in {Read[<<topic, payload>>]} :
    \E r \in {update_read(data, service, m)} :
        /\ topic \in subscribed
        /\ data' = r.data
        /\ service' = r.service
        /\ last' = [handler |-> "_on_message", topic |-> topic, payload |-> payload,
                    outcome |-> r.outcome, writes |-> r.writes]
        /\ delivered' = IF m.error = ""
                        THEN [s \in DOMAIN delivered \cup {m.sensor} |->
                                 IF s = m.sensor THEN m.value ELSE delivered[s]]
                        ELSE delivered
        /\ run' = NextRun(m, r)
        /\ fresh' = NextFresh(m, r)
        /\ script' = IF script \in 0..(Len(Script) - 1) /\ Script[script + 1] = <<topic, payload>>
                     THEN script + 1
                     ELSE OffScript
        /\ UNCHANGED subscribed

Next ==
    \/ on_connect
    \/ \E m \in Messages : on_message(m[1], m[2])

Spec == Init /\ [][Next]_vars

NextPhases ==
    \/ on_connect
    \/ \E m \in PhaseMessages : on_message(m[1], m[2])

SpecPhases == Init /\ [][NextPhases]_vars

NextScenario ==
    \/ on_connect
    \/ \E m \in ScenarioMessages : on_message(m[1], m[2])

SpecScenario == Init /\ [][NextScenario]_vars

---------------------------------------------------------------------------
(* Properties *)

\* the call the last step made was Meter.update, and what it read
Called == last.handler = "_on_message"
LastRead == Read[<<last.topic, last.payload>>]
Stored == Called /\ LastRead.error = ""
WrittenPaths(call) == {call.writes[i][1] : i \in 1..Len(call.writes)}

\* 1000 * (b - e) on numerators and denominators
Watts(b, e) == Rat(1000 * (b[1] * e[2] - e[1] * b[2]), b[2] * e[2])

(* C1: last-write-wins.  After any sequence of updates from a fresh Meter,
   the stored reading of every sensor that was delivered a number is the
   last number delivered for it; "unavailable" updates and updates of other
   sensors do not change it. *)
C1_LastWriteWins ==
    \A k \in DOMAIN delivered : k \in DOMAIN data /\ data[k] = delivered[k]

C1_Witness ==
    /\ Called
    /\ last.payload = BytesUnavailable
    /\ sensor_of(last.topic) = NetzBezug
    /\ NetzBezug \in DOMAIN delivered
    /\ data[NetzBezug] = <<2, 1>>
    /\ ZahlerstandBezug \in DOMAIN delivered
    /\ data[ZahlerstandBezug] = <<10, 1>>

(* C2: an update whose payload is "unavailable" returns normally, leaves
   every stored reading unchanged and writes no output path. *)
C2_UnavailableNoOp ==
    [][(last'.handler = "_on_message" /\ last'.payload = BytesUnavailable)
         => /\ last'.outcome \in Returned
            /\ data' = data
            /\ service' = service
            /\ last'.writes = <<>>]_vars

C2_Witness ==
    /\ Called
    /\ last.payload = BytesUnavailable
    /\ sensor_of(last.topic) = NetzI \o <<"1">>
    /\ NetzI \o <<"1">> \in DOMAIN data
    /\ service[CurrentPath("1")] = <<10, 1>>

(* C3: change suppression.  In every update, a path is written exactly when
   the candidate value differs from the value the path held, each path is
   written at most once, a written value is never the value the path held
   (so consecutive writes to a path differ), and after the gate the path
   holds the candidate: the reading for the pass-through path, 1000 *
   (netz_bezug - netz_einspeisung) for the total power path. *)
C3_ChangeSuppression ==
    [][last'.handler = "_on_message"
         => LET w == last'.writes
                m == Read[<<last'.topic, last'.payload>>]
                total == Watts(data'[NetzBezug], data'[NetzEinspeisung])
            IN  /\ \A i \in 1..Len(w) :
                      service[w[i][1]] # w[i][2] /\ service'[w[i][1]] = w[i][2]
                /\ \A i, j \in 1..Len(w) : w[i][1] = w[j][1] => i = j
                /\ \A p \in ValuePaths :
                      (p \in WrittenPaths(last')) <=> (service'[p] # service[p])
                /\ m.error = "" =>
                      /\ m.sensor \in DOMAIN data_map =>
                            /\ service'[data_map[m.sensor]] = m.value
                            /\ (data_map[m.sensor] \in WrittenPaths(last'))
                                  <=> (service[data_map[m.sensor]] # m.value)
                      /\ service'[PowerPath] = total
                      /\ (PowerPath \in WrittenPaths(last'))
                            <=> (service[PowerPath] # total)]_vars

C3_Witness ==
    /\ Stored
    /\ last.outcome = "returned"
    /\ Len(last.writes) = 1
    /\ last.writes[1][1] = PhasePowerPath("1")
    /\ service[PowerPath] = <<10000, 1>>


\* the per-phase sensor the last call stored a reading of, and power paths
PhaseStored == Stored /\ LastRead.sensor \in PhaseKeys
PhasePowerPaths == {PhasePowerPath(n) : n \in PhaseDigits}
ExportNeverObserved == NetzEinspeisung \notin DOMAIN delivered

(* C4 as claimed: while export-total (netz_einspeisung) has never been
   observed, an update of a per-phase sensor with a number returns normally
   and writes neither the total power path nor a per-phase power path. *)
C4_SkippedWithoutExport ==
    (PhaseStored /\ ExportNeverObserved)
        => /\ last.outcome \in Returned
           /\ PowerPath \notin WrittenPaths(last)
           /\ WrittenPaths(last) \cap PhasePowerPaths = {}

(* C4 as amended: while netz_einspeisung has never been observed, an update
   of a per-phase sensor with a number derives total power with the
   constructor's 0.0 for it: afterwards the total power path holds 1000 *
   (netz_bezug - 0.0).  It writes a per-phase power path only when all six
   per-phase readings are stored and their apparent-power sum is not zero,
   and it raises only ZeroDivisionError, when all six are stored and the sum
   is zero. *)
C4_DefaultZeroExport ==
    (PhaseStored /\ ExportNeverObserved)
        => /\ {NetzBezug, NetzEinspeisung} \subseteq DOMAIN data
           /\ data[NetzEinspeisung] = FZero
           /\ service[PowerPath] = Watts(data[NetzBezug], FZero)
           /\ WrittenPaths(last) \cap PhasePowerPaths # {}
                => PhaseKeys \subseteq DOMAIN data /\ ~FIsZero(apparent_sum(data))
           /\ last.outcome \notin Returned
                => /\ last.outcome = "ZeroDivisionError"
                   /\ PhaseKeys \subseteq DOMAIN data
                   /\ FIsZero(apparent_sum(data))

C4_Witness ==
    /\ PhaseStored
    /\ ExportNeverObserved
    /\ last.writes = <<<<CurrentPath("1"), <<10, 1>>>>, <<PowerPath, FZero>>>>
    /\ last.outcome = "KeyError"

(* C5: with all six per-phase readings stored and all three phase currents
   0, an update of a per-phase sensor with a number returns normally and
   writes no per-phase power path. *)
C5_ZeroDenominatorGuard ==
    (/\ PhaseStored
     /\ PhaseKeys \subseteq DOMAIN data
     /\ \A n \in PhaseDigits : FIsZero(data[NetzI \o <<n>>]))
        => /\ last.outcome \in Returned
           /\ WrittenPaths(last) \cap PhasePowerPaths = {}

(* C6: the total power path is never-published or holds 1000 * (netz_bezug
   - netz_einspeisung) of the stored readings; after every update that
   stores a value it is published; with netz_bezug = 10.0 and
   netz_einspeisung = 2.0 stored it holds 8000.0. *)
C6_TotalPower ==
    /\ service[PowerPath] = None
         \/ service[PowerPath] = Watts(data[NetzBezug], data[NetzEinspeisung])
    /\ Stored => service[PowerPath] # None
    /\ (data[NetzBezug] = <<10, 1>> /\ data[NetzEinspeisung] = <<2, 1>> /\ Stored)
         => service[PowerPath] = <<8000, 1>>

C6_Witness ==
    /\ run.n = 2
    /\ script = 2
    /\ last.writes = <<<<PowerPath, <<8000, 1>>>>>>
    /\ service[PowerPath] = <<8000, 1>>

\* the published per-phase powers, and the apparent power of a phase
Published(n) == service[PhasePowerPath(n)]
AllPublished == \A n \in PhaseDigits : Published(n) # None
Apparent(n) == FMul(data[NetzI \o <<n>>], data[NetzU \o <<n>>])
AllApparent ==
    /\ PhaseKeys \subseteq DOMAIN data
    /\ \A n \in PhaseDigits : FPositive(Apparent(n))
SumPublished == FAdd(FAdd(Published("1"), Published("2")), Published("3"))

(* C7 as claimed: whenever all three per-phase power paths are published
   and all three phases have apparent power > 0, the three published values
   sum to the published total power. *)
C7_PhaseSum ==
    (AllPublished /\ AllApparent) => SumPublished = service[PowerPath]

(* C7 as amended: the sum equals the published total power when, besides,
   each of the three phases was derived by an update of one of its own
   sensors that returned normally after the last change of any of the six
   per-phase readings, of netz_bezug or of netz_einspeisung. *)
C7_FreshPhaseSum ==
    (fresh = PhaseDigits /\ AllPublished /\ AllApparent)
        => SumPublished = service[PowerPath]

C7_Witness ==
    /\ fresh = PhaseDigits
    /\ AllApparent
    /\ service[PowerPath] = <<10000, 1>>
    /\ \A n \in PhaseDigits : Published(n) = <<10000, 3>>

(* C8 as claimed: after netz_bezug = 10.0, netz_einspeisung = 2.0 and then
   i1, u1, i2, u2, i3, u3 = 10.0, 230.0, ... once each on a fresh Meter,
   every per-phase power path is published with 8000/3; and once all six
   per-phase readings were delivered, all three paths are published. *)
C8_ScenarioAllPhases ==
    /\ script = Len(Script) => \A n \in PhaseDigits : Published(n) = <<8000, 3>>
    /\ PhaseKeys \subseteq DOMAIN delivered => AllPublished

(* C8 as amended: after the scenario only the phase of the last reading,
   phase 3, is published, with 8000/3, by the update of u3, and phases 1
   and 2 are never-published; a per-phase power path is published only by
   an update made with all six readings stored, and once all six readings
   were delivered at least one of the three paths is published. *)
C8_ScenarioLastPhase ==
    /\ script = Len(Script)
         => /\ Published("3") = <<8000, 3>>
            /\ Published("1") = None
            /\ Published("2") = None
            /\ Called => last.writes = <<<<VoltagePath("3"), <<230, 1>>>>,
                                         <<PhasePowerPath("3"), <<8000, 3>>>>>>
    /\ script \in 3..(Len(Script) - 1) => \A n \in PhaseDigits : Published(n) = None
    /\ \A n \in PhaseDigits : Published(n) # None => PhaseKeys \subseteq DOMAIN delivered
    /\ PhaseKeys \subseteq DOMAIN delivered => \E n \in PhaseDigits : Published(n) # None

C8_Witness ==
    /\ script = Len(Script)
    /\ service[PowerPath] = <<8000, 1>>
    /\ Published("3") = <<8000, 3>>
    /\ last.outcome = "returned"

\* the two pass-through counters
Counters == {ZahlerstandBezug, ZahlerstandEinspeisung}

(* C9 as claimed: after updates zahlerstand_bezug = a and
   zahlerstand_einspeisung = b of the two sensors passed through to the
   energy paths, the total power path holds 1000 * (a - b). *)
C9_CountersDrivePower ==
    Counters \subseteq DOMAIN delivered
        => service[PowerPath] =
               Watts(delivered[ZahlerstandBezug], delivered[ZahlerstandEinspeisung])

(* C9 as amended: the inputs of the total power derivation are netz_bezug
   and netz_einspeisung, which have no pass-through path.  An update of a
   pass-through counter with a number writes its energy path, leaves both
   inputs as they were, and leaves the total power path at 1000 *
   (netz_bezug - netz_einspeisung): a published total power is not written
   and keeps its value. *)
C9_CountersPassThrough ==
    [][(/\ last'.handler = "_on_message"
        /\ Read[<<last'.topic, last'.payload>>].error = ""
        /\ Read[<<last'.topic, last'.payload>>].sensor \in Counters)
         => LET m == Read[<<last'.topic, last'.payload>>]
            IN  /\ {NetzBezug, NetzEinspeisung} \cap DOMAIN data_map = {}
                /\ m.sensor \in DOMAIN data_map
                /\ data_map[m.sensor] \in {EnergyForward, EnergyReverse}
                /\ service'[data_map[m.sensor]] = m.value
                /\ data'[NetzBezug] = data[NetzBezug]
                /\ data'[NetzEinspeisung] = data[NetzEinspeisung]
                /\ service'[PowerPath] = Watts(data[NetzBezug], data[NetzEinspeisung])
                /\ service[PowerPath] # None
                     => /\ service'[PowerPath] = service[PowerPath]
                        /\ PowerPath \notin WrittenPaths(last')]_vars

C9_Witness ==
    /\ Stored
    /\ LastRead.sensor = ZahlerstandBezug
    /\ last.writes = <<<<EnergyForward, <<10, 1>>>>>>
    /\ Counters \cup {NetzBezug} \subseteq DOMAIN delivered
    /\ delivered[NetzBezug] = <<2, 1>>
    /\ service[PowerPath] = <<2000, 1>>

(* C10: total power idempotence.  When netz_bezug = a, netz_einspeisung = b
   was delivered twice in a row, the total power path holds after the second
   pair the value it held after the first, and the two updates of the second
   pair wrote the total power path zero times. *)
C10_TotalPowerIdempotent ==
    run.n = 4
        => /\ run.first # None
           /\ service[PowerPath] = run.first
           /\ run.writes = 0

C10_Witness ==
    /\ run.n = 4
    /\ run.first = <<8000, 1>>
    /\ service[PowerPath] = <<8000, 1>>
    /\ LastRead.sensor = NetzEinspeisung

\* the ways float(payload.decode()) fails on a payload that is not "unavailable"
ParseErrors == {"ValueError", "UnicodeDecodeError"}
NotANumber == Called /\ LastRead.error \in ParseErrors

(* C11: in every state of the Meter, an update whose payload is neither a
   number nor "unavailable" raises a parse error to its caller; an update
   raises a parse error for no other payload. *)
C11_ParseErrorPropagates ==
    /\ NotANumber => last.outcome \in ParseErrors /\ last.outcome \in Raised
    /\ (Called /\ last.payload \in {BytesUnknown, BytesInvalid}) => NotANumber
    /\ (Called /\ last.outcome \in ParseErrors)
         => ~float_parses(decode(last.payload)) /\ last.payload # BytesUnavailable

C11_Witness ==
    /\ NotANumber
    /\ last.payload = BytesUnknown
    /\ last.outcome = "ValueError"
    /\ NetzI \o <<"1">> \in DOMAIN data
    /\ service[PowerPath] = <<8000, 1>>

\* the eight pass-through sensors: two energy counters, three currents,
\* three voltages
PassThroughSensors ==
    {ZahlerstandBezug, ZahlerstandEinspeisung} \cup Currents \cup Voltages

(* C12: pass-through invariant.  Between updates, the output path of each
   of the eight pass-through sensors is never-published if the sensor was
   never updated with a number, and otherwise holds the sensor's stored
   reading; the eight sensors map to eight distinct paths. *)
C12_PassThrough ==
    /\ DOMAIN data_map = PassThroughSensors
    /\ Cardinality(PassThroughSensors) = 8
    /\ \A s, t \in DOMAIN data_map : data_map[s] = data_map[t] => s = t
    /\ \A s \in DOMAIN data_map : data_map[s] \in ValuePaths \ {PowerPath}
    /\ \A s \in DOMAIN data_map :
          IF s \in DOMAIN delivered
          THEN s \in DOMAIN data /\ service[data_map[s]] = data[s]
          ELSE s \notin DOMAIN data /\ service[data_map[s]] = None

C12_Witness ==
    /\ Stored
    /\ LastRead.sensor = NetzI \o <<"1">>
    /\ last.outcome = "KeyError"
    /\ ZahlerstandBezug \in DOMAIN delivered
    /\ service[EnergyForward] = <<2, 1>>
    /\ ZahlerstandEinspeisung \in DOMAIN delivered
    /\ service[EnergyReverse] = <<2, 1>>
    /\ service[CurrentPath("1")] = <<10, 1>>
    /\ NetzU \o <<"1">> \notin DOMAIN delivered
    /\ service[VoltagePath("1")] = None

\* the two total power inputs Meter.__init__ stores 0.0 for
PresetInputs == {NetzBezug, NetzEinspeisung}

(* C13 as claimed: the stored readings are empty at construction, and every
   key present in them was delivered by an earlier update with a number. *)
C13_OnlyObservedKeys ==
    DOMAIN data \subseteq DOMAIN delivered

(* C13 as amended: the stored readings hold, besides the keys delivered by
   an update with a number, netz_bezug and netz_einspeisung from
   construction on, each with 0.0 until an update delivers a number for it;
   every other present key was delivered by an earlier update with a
   number, and no key is ever removed. *)
C13_PresetTotalPowerInputs ==
    /\ DOMAIN data = DOMAIN delivered \cup PresetInputs
    /\ \A k \in PresetInputs \ DOMAIN delivered : data[k] = FZero
    /\ \A k \in DOMAIN delivered : data[k] = delivered[k]
    /\ last.handler = "__init__" => DOMAIN data = PresetInputs /\ delivered = <<>>

C13_Witness ==
    /\ Stored
    /\ DOMAIN delivered = {NetzBezug, ZahlerstandBezug}
    /\ data[NetzBezug] = <<10, 1>>
    /\ data[NetzEinspeisung] = FZero
    /\ service[PowerPath] = <<10000, 1>>

\* the phase of the sensor the last call stored a reading of
LastPhase == LastRead.phase_no
\* i1 * u1 + i2 * u2 + i3 * u3 of the stored readings
ApparentSum == FAdd(FAdd(Apparent("1"), Apparent("2")), Apparent("3"))

(* C14: per-phase formula.  After an update of the current or voltage
   sensor of phase n with a number, made with all six per-phase readings
   stored (this update's value among them) and S = i1*u1 + i2*u2 + i3*u3
   not zero, the call has returned normally and the power path of phase n
   holds total_power * (i_n * u_n) / S, where total_power is the total power
   this update published and i, u are the stored readings after the store. *)
C14_PhaseFormula ==
    (/\ PhaseStored
     /\ PhaseKeys \subseteq DOMAIN data
     /\ ~FIsZero(ApparentSum))
        => /\ last.outcome = "returned"
           /\ data[LastRead.sensor] = LastRead.value
           /\ service[PowerPath] = Watts(data[NetzBezug], data[NetzEinspeisung])
           /\ Published(LastPhase)
                = FDiv(FMul(service[PowerPath], Apparent(LastPhase)), ApparentSum)

C14_Witness ==
    /\ PhaseStored
    /\ LastRead.sensor = NetzI \o <<"2">>
    /\ PhaseKeys \subseteq DOMAIN data
    /\ data[NetzI \o <<"1">>] = <<10, 1>>
    /\ data[NetzI \o <<"2">>] = FZero
    /\ data[NetzI \o <<"3">>] = <<10, 1>>
    /\ service[PowerPath] = <<10000, 1>>
    /\ Published("1") = <<10000, 3>>
    /\ last.writes = <<<<CurrentPath("2"), FZero>>, <<PhasePowerPath("2"), FZero>>>>

\* the phase a per-phase sensor belongs to, and the paths an update of
\* sensor k may write
PhaseOf(k) == CHOOSE n \in PhaseDigits : k \in {NetzI \o <<n>>, NetzU \o <<n>>}
Frame(k) ==
    {PowerPath}
        \cup (IF k \in PassThroughSensors THEN {data_map[k]} ELSE {})
        \cup (IF k \in PhaseKeys THEN {PhasePowerPath(PhaseOf(k))} ELSE {})

(* C15: write frame of one update.  An update for sensor k changes at most
   the stored reading of k, and writes (and changes) at most the
   pass-through path of k, the total power path and the power path of k's
   own phase, each at most once; an update of an energy counter or of
   netz_bezug or netz_einspeisung writes no per-phase power path. *)
C15_WriteFrame ==
    [][last'.handler = "_on_message"
         => LET k == Read[<<last'.topic, last'.payload>>].sensor
                written == WrittenPaths(last')
            IN  /\ DOMAIN data \subseteq DOMAIN data'
                /\ DOMAIN data' \subseteq DOMAIN data \cup {k}
                /\ \A s \in DOMAIN data : s # k => data'[s] = data[s]
                /\ written \subseteq Frame(k)
                /\ Len(last'.writes) = Cardinality(written)
                /\ Cardinality(written) <= 3
                /\ \A p \in ValuePaths \ Frame(k) : service'[p] = service[p]
                /\ k \in Counters \cup PresetInputs => written \cap PhasePowerPaths = {}
                /\ k \in PhaseKeys
                     => written \cap PhasePowerPaths \subseteq {PhasePowerPath(PhaseOf(k))}]_vars

C15_Witness ==
    /\ Stored
    /\ LastRead.sensor = NetzU \o <<"1">>
    /\ last.writes = <<<<VoltagePath("1"), <<230, 1>>>>,
                       <<PhasePowerPath("1"), <<8000, 3>>>>>>
    /\ Published("2") = None
    /\ Published("3") = None
    /\ Counters \subseteq DOMAIN delivered

(* C16: missing-dependency skip.  An update of a per-phase sensor with a
   number, after whose store at least one of the six per-phase readings is
   still absent, returns normally, has stored the value, leaves the sensor's
   pass-through path holding it, and writes no per-phase power path; no
   per-phase power path is published before all six per-phase readings were
   observed. *)
C16_MissingDependencySkip ==
    /\ (PhaseStored /\ ~(PhaseKeys \subseteq DOMAIN data))
         => /\ last.outcome \in Returned
            /\ data[LastRead.sensor] = LastRead.value
            /\ service[data_map[LastRead.sensor]] = LastRead.value
            /\ WrittenPaths(last) \cap PhasePowerPaths = {}
    /\ ~(PhaseKeys \subseteq DOMAIN delivered) => \A n \in PhaseDigits : Published(n) = None

C16_Witness ==
    /\ PhaseStored
    /\ LastRead.sensor = NetzU \o <<"3">>
    /\ DOMAIN delivered = PhaseKeys \ {NetzI \o <<"1">>}
    /\ last.outcome = "KeyError"
    /\ last.writes = <<<<VoltagePath("3"), <<230, 1>>>>>>
    /\ data[NetzI \o <<"3">>] = <<10, 1>>

\* the two power-balance keys and the ten topics of the bridge
PowerBalanceKeys == {NetzBezug, NetzEinspeisung}
StateTopics == {k \o StateSuffix : k \in PassThroughSensors \cup PowerBalanceKeys}

(* C17: a connect subscribes to exactly the ten topics <sensor-key>/state of
   the eight pass-through sensor keys and the two power-balance keys, and
   leaves stored readings and published values as they are, on a reconnect
   too; every received message is handed to update, which stores a number
   under the subscribed sensor key itself and publishes it at that key's
   output path. *)
C17_SubscribeAndForward ==
    [][/\ last'.handler = "_on_connect"
            => /\ subscribed' = StateTopics
               /\ Cardinality(subscribed') = 10
               /\ subscribed \in {{}, StateTopics}
               /\ data' = data
               /\ service' = service
       /\ last'.handler = "_on_message"
            => /\ subscribed' = StateTopics
               /\ last'.topic \in subscribed
               /\ \E k \in PassThroughSensors \cup PowerBalanceKeys :
                     /\ last'.topic = k \o StateSuffix
                     /\ Read[<<last'.topic, last'.payload>>].sensor = k
                     /\ Read[<<last'.topic, last'.payload>>].error = ""
                          => /\ k \in DOMAIN data'
                             /\ data'[k] = Read[<<last'.topic, last'.payload>>].value
                             /\ DOMAIN data' \subseteq PassThroughSensors \cup PowerBalanceKeys
                             /\ k \in PassThroughSensors
                                  => service'[data_map[k]] = data'[k]]_vars

C17_Witness ==
    /\ last.handler = "_on_connect"
    /\ subscribed = StateTopics
    /\ ZahlerstandBezug \in DOMAIN data
    /\ data[ZahlerstandBezug] = <<10, 1>>
    /\ service[EnergyForward] = <<10, 1>>
    /\ service[PowerPath] = <<8000, 1>>

(* C18: state unchanged on parse error.  An update that raises because its
   payload is no number leaves every stored reading and every published
   value as it was before the call, and writes no path. *)
C18_ParseErrorLeavesState ==
    [][(last'.handler = "_on_message" /\ last'.outcome \in ParseErrors)
         => /\ data' = data
            /\ service' = service
            /\ last'.writes = <<>>
            /\ delivered' = delivered]_vars

C18_Witness ==
    /\ Called
    /\ last.payload = BytesInvalid
    /\ last.outcome = "UnicodeDecodeError"
    /\ sensor_of(last.topic) = ZahlerstandBezug
    /\ ZahlerstandBezug \in DOMAIN data
    /\ service[EnergyForward] = <<10, 1>>
    /\ service[PowerPath] = <<2000, 1>>

\* the place of a path in the order pass-through, total power, per-phase power
Rank(p) == IF p = PowerPath THEN 2 ELSE IF p \in PhasePowerPaths THEN 3 ELSE 1
\* the ways an update that stored a number ends before the per-phase publish
PhaseFaults == {"KeyError", "ZeroDivisionError"}

(* C19: effects precede the per-phase derivation.  When an update with a
   number ends without publishing per-phase power, because a reading is
   missing or because the division faults, the reading is stored, its
   pass-through path holds it and the total power path holds 1000 *
   (netz_bezug - netz_einspeisung) of the stored readings; the writes of
   every update come in the order pass-through, total power, per-phase
   power. *)
C19_EffectsPrecedePhase ==
    /\ (Stored /\ last.outcome \in PhaseFaults)
         => /\ WrittenPaths(last) \cap PhasePowerPaths = {}
            /\ data[LastRead.sensor] = LastRead.value
            /\ LastRead.sensor \in PassThroughSensors
                 => service[data_map[LastRead.sensor]] = LastRead.value
            /\ service[PowerPath] = Watts(data[NetzBezug], data[NetzEinspeisung])
    /\ Called => \A i, j \in 1..Len(last.writes) :
                    i < j => Rank(last.writes[i][1]) < Rank(last.writes[j][1])

C19_Witness ==
    /\ Stored
    /\ last.outcome = "ZeroDivisionError"
    /\ LastRead.sensor = NetzI \o <<"1">>
    /\ last.writes = <<<<CurrentPath("1"), FZero>>>>
    /\ service[PowerPath] = <<10000, 1>>
    /\ Published("1") = <<10000, 3>>

====
